---- MODULE Spec2Model ----
(***************************************************************************)
(* mqtt_sun (src/src/main.rs): the solar-phase loop of main(), the phase   *)
(* classifier From<(f64, bool)> for SunPosition, the wire strings and the  *)
(* scheduling of the one-shot solar-noon event.                            *)
(*                                                                         *)
(* Numbers.  Angles are fixed-point: an altitude is an integer number of   *)
(* tenths of a degree (the value of sun_info.altitude.to_degrees() times   *)
(* ten), a longitude an integer number of hundredths of a degree, the      *)
(* equation of time an integer number of hundredths of a minute.  Instants *)
(* are whole epoch seconds, as in the code (t.as_secs(), time_of_noon).    *)
(* Inside today_solar_noon the angles are thousandths of a degree, the     *)
(* eccentricity and var_y millionths, sines and cosines ten-thousandths;   *)
(* every intermediate value stays below 2^31.                              *)
(***************************************************************************)
EXTENDS Integers, Sequences, FiniteSets, TLC

VARIABLES
    old_sun_pos,    \* main: let mut old_sun_pos  (None or a phase)
    time_of_noon,   \* main: let mut time_of_noon (None or epoch seconds)
    now,            \* the wall clock, epoch seconds
    tz,             \* offset of chrono::Local from UTC, seconds east
    long,           \* my_coords.long, hundredths of a degree
    eq_of_time,     \* today_solar_noon: eq_of_time of its last call (0 before the first)
    is_morning,     \* main: the last iteration's is_morning
    altitude,       \* main: the last iteration's sun_info.altitude, tenths of a degree
    sun_pos,        \* main: the last iteration's sun_pos (None before the first sample)
    pubs,           \* the publish calls of the last iteration, in order
    slept,          \* whether the last iteration ended in thread::sleep(60 s)
    outcome,        \* how the last iteration ended: start, skipped, same, transition
    iters,          \* history: iterations of the loop so far
    samples,        \* history: iterations that read the clock and sampled the sun
    n_telemetry,    \* history: publish calls on sun/info so far
    n_phase,        \* history: classifier-phase publish calls on sun so far
    n_changes,      \* history: samples whose phase differs from the previous sample's
    on_script,      \* history: the samples so far are a prefix of Scenario
    noon_for,       \* history: the local day time_of_noon was predicted for
    noon_days,      \* history: the days whose SolarNoon event was published, in order
    last_sun_event, \* history: payload of the last classifier-phase call on topic sun
    all_ok,         \* history: no publish call has returned Err so far
    n_sunrise,      \* history: Sunrise events published so far
    sunset_day      \* history: the local day of the last Sunset event published

vars == <<old_sun_pos, time_of_noon, now, tz, long, eq_of_time, is_morning,
          altitude, sun_pos, pubs, slept, outcome, iters, samples, n_telemetry,
          n_phase, n_changes, on_script, noon_for, noon_days, last_sun_event,
          all_ok, n_sunrise, sunset_day>>


-----------------------------------------------------------------------------
(* Bounds of the model.                                                    *)

\* Iterations of the loop in one run.
MaxIters == 4
\* The altitudes of the classifier specification: -MaxAltitude .. MaxAltitude tenths.
MaxAltitude == 2600
\* The local day the runs start on (days since 1970-01-01).
StartDay == 19000
\* Iterations of a scenario run that cannot read the clock.
MaxSkips == 1
\* The dates of the noon predictor's specification: one a week from StartDay on.
MaxNoonWeeks == 52

(* Program constants.                                                      *)
I8_MIN == -128
I8_MAX == 127
SleepSecs == 60
SecsPerDay == 86400
SecsPerHour == 3600

\* Option<T>: None, or Some(x) holding x.
None == <<>>
Some(x) == <<x>>
Unwrap(o) == o[1]

\* sun_pos before the first sample.
NoSample == "NoSample"

-----------------------------------------------------------------------------
(* enum SunPosition and its wire strings.                                  *)

SunPosition ==
    {"Night", "AstronomicalDawn", "NauticalDawn", "CivilDawn", "Sunrise",
     "Sunset", "CivilDusk", "NauticalDusk", "AstronomicalDusk", "SolarNoon"}

\* Mutant: the string of CivilDusk was copied from CivilDawn.
WireStringCopied(s) ==
    CASE s = "Night" -> "night"
      [] s = "AstronomicalDawn" -> "astronomicalDawn"
      [] s = "NauticalDawn" -> "nauticalDawn"
      [] s = "CivilDawn" -> "civilDawn"
      [] s = "Sunrise" -> "sunrise"
      [] s = "Sunset" -> "sunset"
      [] s = "CivilDusk" -> "civilDawn"
      [] s = "NauticalDusk" -> "nauticalDusk"
      [] s = "AstronomicalDusk" -> "astronomicalDusk"
      [] s = "SolarNoon" -> "solarNoon"

\* impl From<&SunPosition> for &'static str
WireString(s) ==
    CASE s = "Night" -> "night"
      [] s = "AstronomicalDawn" -> "astronomicalDawn"
      [] s = "NauticalDawn" -> "nauticalDawn"
      [] s = "CivilDawn" -> "civilDawn"
      [] s = "Sunrise" -> "sunrise"
      [] s = "Sunset" -> "sunset"
      [] s = "CivilDusk" -> "civilDusk"
      [] s = "NauticalDusk" -> "nauticalDusk"
      [] s = "AstronomicalDusk" -> "astronomicalDusk"
      [] s = "SolarNoon" -> "solarNoon"

-----------------------------------------------------------------------------
(* The phase classifier.                                                   *)

\* A float-to-integer `as` cast drops the fraction (rounds toward zero).
TruncDiv(a, b) == IF a >= 0 THEN a \div b ELSE -((-a) \div b)

\* Mutant: the cast wraps modulo 256 instead of saturating.
AsI8Wrapping(x) == ((TruncDiv(x, 10) - I8_MIN) % (I8_MAX - I8_MIN + 1)) + I8_MIN

\* Mutant: the cast rounds down instead of toward zero.
AsI8Floor(x) ==
    LET t == x \div 10
    IN  IF t > I8_MAX THEN I8_MAX ELSE IF t < I8_MIN THEN I8_MIN ELSE t

\* angle.0.to_degrees() as i8: truncation toward zero, saturating at the
\* ends of i8 (x is in tenths of a degree).
AsI8(x) ==
    LET t == TruncDiv(x, 10)
    IN  IF t > I8_MAX THEN I8_MAX ELSE IF t < I8_MIN THEN I8_MIN ELSE t

\* Mutant: the evening arm of the 0..=90 band was copied from the morning one.
ClassifyCopiedArm(x, morning) ==
    LET angle == AsI8(x)
    IN  IF morning
        THEN CASE angle \in -18 .. -13 -> "AstronomicalDawn"
               [] angle \in -12 .. -7  -> "NauticalDawn"
               [] angle \in -6 .. -1   -> "CivilDawn"
               [] angle \in 0 .. 90    -> "Sunrise"
               [] OTHER                -> "Night"
        ELSE CASE angle \in -18 .. -13 -> "AstronomicalDusk"
               [] angle \in -12 .. -7  -> "NauticalDusk"
               [] angle \in -6 .. -1   -> "CivilDusk"
               [] angle \in 0 .. 90    -> "Sunrise"
               [] OTHER                -> "Night"

\* impl From<(f64, bool)> for SunPosition
Classify(x, morning) ==
    LET angle == AsI8(x)
    IN  IF morning
        THEN CASE angle \in -18 .. -13 -> "AstronomicalDawn"
               [] angle \in -12 .. -7  -> "NauticalDawn"
               [] angle \in -6 .. -1   -> "CivilDawn"
               [] angle \in 0 .. 90    -> "Sunrise"
               [] OTHER                -> "Night"
        ELSE CASE angle \in -18 .. -13 -> "AstronomicalDusk"
               [] angle \in -12 .. -7  -> "NauticalDusk"
               [] angle \in -6 .. -1   -> "CivilDusk"
               [] angle \in 0 .. 90    -> "Sunset"
               [] OTHER                -> "Night"

-----------------------------------------------------------------------------
(* The clock and the noon predictor's last step.                           *)

\* chrono::Local::now().hour() at instant t
Hour(t) == ((t + tz) \div SecsPerHour) % 24

\* chrono::Local::today() at instant t, as days since 1970-01-01
Today(t) == (t + tz) \div SecsPerDay

\* solar_noon_after * 24.0 * 3600.0, in tenths of a second:
\* (720 - 4 long - eq_of_time) / 1440 of a day, with long in hundredths of
\* a degree and eq_of_time in hundredths of a minute.
SolarNoonAfter(lon, eq) == 432000 - 24 * lon - 6 * eq

\* fn today_solar_noon: the local date's seconds since 1970-01-01 plus
\* (solar_noon_after * 24.0 * 3600.0) as i64
today_solar_noon(today, lon, eq) ==
    today * SecsPerDay + TruncDiv(SolarNoonAfter(lon, eq), 10)

-----------------------------------------------------------------------------
(* fn today_solar_noon: the equation of time.                              *)

\* 10000 * sin(d degrees), d = 0 .. 90
SinTable ==
    <<0, 175, 349, 523, 698, 872, 1045, 1219, 1392, 1564, 1736, 1908, 2079,
      2250, 2419, 2588, 2756, 2924, 3090, 3256, 3420, 3584, 3746, 3907, 4067,
      4226, 4384, 4540, 4695, 4848, 5000, 5150, 5299, 5446, 5592, 5736, 5878,
      6018, 6157, 6293, 6428, 6561, 6691, 6820, 6947, 7071, 7193, 7314, 7431,
      7547, 7660, 7771, 7880, 7986, 8090, 8192, 8290, 8387, 8480, 8572, 8660,
      8746, 8829, 8910, 8988, 9063, 9135, 9205, 9272, 9336, 9397, 9455, 9511,
      9563, 9613, 9659, 9703, 9744, 9781, 9816, 9848, 9877, 9903, 9925, 9945,
      9962, 9976, 9986, 9994, 9998, 10000>>

\* f64::sin on the first quadrant, a in 0 .. 90000 thousandths of a degree:
\* the table, interpolated between whole degrees.
SinQuadrant(a) ==
    LET d == a \div 1000
        f == a % 1000
    IN  IF d >= 90 THEN SinTable[91]
        ELSE SinTable[d + 1] + ((SinTable[d + 2] - SinTable[d + 1]) * f) \div 1000

\* x.to_radians().sin(), x in thousandths of a degree, result in ten-thousandths
Sin(a) ==
    LET r == a % 360000
    IN  IF r <= 90000 THEN SinQuadrant(r)
        ELSE IF r <= 180000 THEN SinQuadrant(180000 - r)
        ELSE IF r <= 270000 THEN -SinQuadrant(r - 180000)
        ELSE -SinQuadrant(360000 - r)

\* x.to_radians().cos()
Cos(a) == Sin(a + 90000)

\* date_to_julian(&today) - 2451545.0, in half days: the Julian day of the
\* date at 0h is the day number since 1970-01-01 plus 2440587.5.
HalfDaysSinceJ2000(today) == 2 * today - 21915

\* astro::time::julian_cent(today_jul), in thousandths of a century
today_jul_century(today) == TruncDiv(HalfDaysSinceJ2000(today) * 1000, 73050)

\* sun_long = (280.46646 + T * (36000.76983 + T * 0.0003032)) % 360.0, in
\* thousandths of a degree; 36000.76983 degrees a century are 492.8237
\* thousandths of a degree a half day.  The dates are after 2000-01-01,
\* where the remainder is not negative.
sun_long(today) ==
    LET d2 == HalfDaysSinceJ2000(today)
        t == today_jul_century(today)
    IN  (280466 + 492 * d2 + (8237 * d2) \div 10000
            + ((3032 * t * t) \div 100000) \div 100000) % 360000

\* sun_anom = 357.52911 + T * (35999.05029 - 0.0001537 * T), in thousandths
\* of a degree (492.7995 a half day); it is not reduced modulo 360.
sun_anom(today) ==
    LET d2 == HalfDaysSinceJ2000(today)
        t == today_jul_century(today)
    IN  357529 + 492 * d2 + (7995 * d2) \div 10000
            - ((1537 * t * t) \div 100000) \div 100000

\* eccent_eart_orbit = 0.016708634 - T * (0.000042037 + 0.0000001267 * T),
\* in millionths (the T * T term is below one millionth)
eccent_eart_orbit(today) == 16709 - (42037 * today_jul_century(today)) \div 1000000

\* mean_obliq_ecliptic_corr = 23 + (26 + (21.448 - T * (46.815 + ..)) / 60) / 60
\*     + 0.00256 * cos(125.04 - 1934.136 * T), in thousandths of a degree
mean_obliq_ecliptic_corr(today) ==
    LET d2 == HalfDaysSinceJ2000(today)
        t == today_jul_century(today)
        omega == 125040 - (26477 * d2) \div 1000
    IN  23439 - (13004 * t) \div 1000000 + TruncDiv(256 * Cos(omega), 1000000)

\* var_y = tan(mean_obliq_ecliptic_corr / 2)^2, in millionths: 0.043029 at
\* 23.439 degrees and 3.776 millionths more for each thousandth of a degree
\* (the obliquity stays within a hundredth of a degree of 23.439).
var_y(today) == 43029 + TruncDiv(3776 * (mean_obliq_ecliptic_corr(today) - 23439), 1000)

\* 4.0 * sun_long.to_radians(), in ten-thousandths of a radian: the factor
\* of 0.5 * var_y.powi(2) in the fourth term, which takes no sine of it.
FourthTermFactor(today) == 4 * ((sun_long(today) * 1745) \div 10000)

\* The five terms of eq_of_time with `fourth` as the factor of
\* 0.5 * var_y^2, times 4.0 and .to_degrees(): hundredths of a minute.
EqOfTimeWith(today, fourth) ==
    LET L == sun_long(today)
        M == sun_anom(today)
        e == eccent_eart_orbit(today)
        y == var_y(today)
        t1 == TruncDiv(y * Sin(2 * L), 10000)
        t2 == TruncDiv(2 * e * Sin(M), 10000)
        t3 == TruncDiv(TruncDiv(4 * ((e * y) \div 1000000) * Sin(M), 10000) * Cos(2 * L), 10000)
        t4 == TruncDiv(((y * y) \div 1000000) * fourth, 20000)
        t5 == TruncDiv(125 * ((e * e) \div 1000000) * Sin(2 * M), 1000000)
    IN  TruncDiv((t1 - t2 + t3 - t4 - t5) * 2292, 100000)

\* let eq_of_time = 4.0 * (..).to_degrees()
EqOfTime(today) == EqOfTimeWith(today, FourthTermFactor(today))

-----------------------------------------------------------------------------
(* Publishing.                                                             *)

\* One call of Client::publish and whether it returned Ok.
Pub(topic, payload, ok) == [topic |-> topic, payload |-> payload, ok |-> ok]

\* fn publish_event: the wire string of the event on the topic; an Err is
\* logged and dropped.
publish_event(event, topic, ok) == Pub(topic, WireString(event), ok)

\* format!("{}", sun_info.altitude.to_degrees()): sign, whole degrees and
\* the tenths digit of the decimal string.
FormatAltitude(x) ==
    LET m == IF x < 0 THEN -x ELSE x
    IN  <<IF x < 0 THEN "-" ELSE "", m \div 10, m % 10>>

-----------------------------------------------------------------------------
(* One iteration of main's loop.                                           *)

\* The inputs of the runs.
TzOffsets == {SecsPerHour}
Longitudes == {2000, -800}
StartHours == {5, 11}
Delays == {0, SleepSecs, SecsPerHour}
LoopAltitudes == {-300, -30, 100}

\* spec.md section 8: the phases of the six-sample run.
Scenario == <<"Night", "Night", "CivilDawn", "CivilDawn", "Sunrise", "Sunset">>

\* The instants the clock can show when the next iteration reads it:
\* thread::sleep returns after at least 60 s.
NextInstants == {now + d : d \in {e \in Delays : slept => e >= SleepSecs}}

\* if let Some(time) = time_of_noon { if now > time as u64 {..} }: a
\* negative time casts to a u64 beyond every clock reading.
NoonDue(t) ==
    time_of_noon # None /\ Unwrap(time_of_noon) >= 0 /\ t > Unwrap(time_of_noon)

\* The results the noon check's publish call can have: there is a call
\* only when the check fires.
NoonResults(t) == IF NoonDue(t) THEN BOOLEAN ELSE {TRUE}

\* The noon check's publish call, if it fires.
NoonPubs(t, ok) ==
    IF NoonDue(t) THEN <<publish_event("SolarNoon", "sun", ok)>> ELSE <<>>

\* Mutant: the noon check publishes and leaves time_of_noon set.
NoonAfterCheckKept(t) == time_of_noon

\* time_of_noon after the noon check.
NoonAfterCheck(t) == IF NoonDue(t) THEN None ELSE time_of_noon

\* conn.publish("sun/info", ..)
InfoPub(x, ok) == Pub("sun/info", FormatAltitude(x), ok)

\* Mutant: every new phase schedules a noon event.
NoonAfterTransitionAnyPhase(t, p) ==
    Some(today_solar_noon(Today(t), long, EqOfTime(Today(t))))

\* if sun_pos == SunPosition::Sunrise { time_of_noon = Some(today_solar_noon(..)) }
NoonAfterTransition(t, p) ==
    IF p = "Sunrise"
    THEN Some(today_solar_noon(Today(t), long, EqOfTime(Today(t))))
    ELSE NoonAfterCheck(t)

\* eq_of_time of the call of today_solar_noon, if there is one
EqAfterTransition(t, p) == IF p = "Sunrise" THEN EqOfTime(Today(t)) ELSE eq_of_time

\* Mutant: the noon check records SolarNoon as the last published phase.
OldAfterNoonCheckRecorded(t) == IF NoonDue(t) THEN Some("SolarNoon") ELSE old_sun_pos

\* old_sun_pos after the noon check, which does not assign it
OldAfterNoonCheck(t) == old_sun_pos

\* Mutant: the phase is remembered only when its publish succeeded.
OldAfterTransitionIfSent(p, ok) == IF ok THEN Some(p) ELSE old_sun_pos

\* Mutant: the new phase is published but not remembered.
OldAfterTransitionStale(p, ok) == old_sun_pos

\* old_sun_pos = Some(sun_pos): the result of the publish is not consulted.
OldAfterTransition(p, ok) == Some(p)

\* Mutant: telemetry is published only after the phase is found changed.
SamePubsNoInfo(t, x, ok_noon, ok_info) == NoonPubs(t, ok_noon)

\* The publish calls of an iteration that finds the phase unchanged.
SamePubs(t, x, ok_noon, ok_info) ==
    NoonPubs(t, ok_noon) \o <<InfoPub(x, ok_info)>>

\* Mutant: the noon check comes after the publish of the new phase.
TransitionPubsNoonLast(t, x, p, ok_noon, ok_info, ok_sun) ==
    <<InfoPub(x, ok_info)>> \o <<publish_event(p, "sun", ok_sun)>> \o NoonPubs(t, ok_noon)

\* The publish calls of an iteration that finds a new phase p.
TransitionPubs(t, x, p, ok_noon, ok_info, ok_sun) ==
    NoonPubs(t, ok_noon) \o <<InfoPub(x, ok_info)>> \o <<publish_event(p, "sun", ok_sun)>>

\* Mutant: a missing old_sun_pos counts as an unchanged phase.
SamePhaseNoneIsSame(p) == old_sun_pos = None \/ Unwrap(old_sun_pos) = p

\* if let Some(o_p) = &old_sun_pos { if o_p == &sun_pos {..} }
SamePhase(p) == old_sun_pos # None /\ Unwrap(old_sun_pos) = p

\* What every iteration that reads the clock does first: the noon check,
\* the sample, the telemetry publish and the classification.
Sampled(t, x) ==
    LET p == Classify(x, Hour(t) <= 12) IN
    /\ now' = t
    /\ is_morning' = (Hour(t) <= 12)
    /\ altitude' = x
    /\ sun_pos' = p
    /\ iters' = iters + 1
    /\ samples' = samples + 1
    /\ n_telemetry' = n_telemetry + 1
    /\ n_changes' = IF sun_pos # NoSample /\ sun_pos # p THEN n_changes + 1 ELSE n_changes
    /\ on_script' = (on_script /\ samples < Len(Scenario) /\ Scenario[samples + 1] = p)
    /\ noon_days' = IF NoonDue(t) THEN Append(noon_days, Unwrap(noon_for)) ELSE noon_days
    /\ UNCHANGED <<tz, long>>

\* Err from duration_since(UNIX_EPOCH): the body is skipped and the loop
\* goes round at once.
ClockError ==
    /\ \E t \in NextInstants : now' = t
    /\ pubs' = <<>>
    /\ slept' = FALSE
    /\ outcome' = "skipped"
    /\ iters' = iters + 1
    /\ UNCHANGED <<old_sun_pos, time_of_noon, tz, long, eq_of_time, is_morning,
                   altitude, sun_pos, samples, n_telemetry, n_phase, n_changes,
                   on_script, noon_for, noon_days, last_sun_event, all_ok,
                   n_sunrise, sunset_day>>

\* The sampled phase is the last published one: sleep 60 s and continue.
TickSame ==
    \E t \in NextInstants, x \in LoopAltitudes :
    \E ok_noon \in NoonResults(t), ok_info \in BOOLEAN :
        LET p == Classify(x, Hour(t) <= 12) IN
        /\ Sampled(t, x)
        /\ SamePhase(p)
        /\ pubs' = SamePubs(t, x, ok_noon, ok_info)
        /\ all_ok' = (all_ok /\ ok_noon /\ ok_info)
        /\ time_of_noon' = NoonAfterCheck(t)
        /\ noon_for' = IF NoonDue(t) THEN None ELSE noon_for
        /\ slept' = TRUE
        /\ outcome' = "same"
        /\ old_sun_pos' = OldAfterNoonCheck(t)
        /\ UNCHANGED <<eq_of_time, n_phase, last_sun_event, n_sunrise, sunset_day>>

\* The sampled phase is new: publish it, schedule noon at Sunrise, and go
\* round without sleeping.
TickTransition ==
    \E t \in NextInstants, x \in LoopAltitudes :
    \E ok_noon \in NoonResults(t), ok_info \in BOOLEAN, ok_sun \in BOOLEAN :
        LET p == Classify(x, Hour(t) <= 12) IN
        /\ Sampled(t, x)
        /\ ~SamePhase(p)
        /\ pubs' = TransitionPubs(t, x, p, ok_noon, ok_info, ok_sun)
        /\ all_ok' = (all_ok /\ ok_noon /\ ok_info /\ ok_sun)
        /\ time_of_noon' = NoonAfterTransition(t, p)
        /\ eq_of_time' = EqAfterTransition(t, p)
        /\ noon_for' = IF p = "Sunrise" THEN Some(Today(t))
                       ELSE IF NoonDue(t) THEN None ELSE noon_for
        /\ old_sun_pos' = OldAfterTransition(p, ok_sun)
        /\ last_sun_event' = Some(WireString(p))
        /\ n_phase' = n_phase + 1
        /\ n_sunrise' = IF p = "Sunrise" THEN n_sunrise + 1 ELSE n_sunrise
        /\ sunset_day' = IF p = "Sunset" THEN Some(Today(t)) ELSE sunset_day
        /\ slept' = FALSE
        /\ outcome' = "transition"

\* let mut old_sun_pos = None; let mut time_of_noon = None, nothing
\* published yet
InitMain ==
    /\ old_sun_pos = None
    /\ time_of_noon = None
    /\ eq_of_time = 0
    /\ pubs = <<>>
    /\ slept = FALSE
    /\ outcome = "start"
    /\ iters = 0
    /\ samples = 0
    /\ n_telemetry = 0
    /\ n_phase = 0
    /\ n_changes = 0
    /\ on_script = TRUE
    /\ noon_for = None
    /\ noon_days = <<>>
    /\ last_sun_event = None
    /\ all_ok = TRUE
    /\ n_sunrise = 0
    /\ sunset_day = None

\* main before the loop
InitLoop ==
    /\ InitMain
    /\ tz \in TzOffsets
    /\ long \in Longitudes
    /\ now \in {StartDay * SecsPerDay + h * SecsPerHour - tz : h \in StartHours}

Init ==
    /\ InitLoop
    /\ is_morning = TRUE
    /\ altitude = 0
    /\ sun_pos = NoSample

\* The loop, cut after MaxIters iterations.
Next ==
    \/ iters < MaxIters /\ ClockError
    \/ iters < MaxIters /\ TickSame
    \/ iters < MaxIters /\ TickTransition

Spec == Init /\ [][Next]_vars

\* The runs whose samples follow Scenario, with up to MaxSkips iterations
\* that could not read the clock.
NextScenario ==
    \/ iters - samples < MaxSkips /\ ClockError
    \/ samples < Len(Scenario) /\ TickSame /\ on_script'
    \/ samples < Len(Scenario) /\ TickTransition /\ on_script'

SpecScenario == Init /\ [][NextScenario]_vars

\* The classifier alone: every altitude of -MaxAltitude .. MaxAltitude tenths
\* of a degree, morning and evening.
InitClassify ==
    /\ InitLoop
    /\ is_morning \in BOOLEAN
    /\ altitude \in -MaxAltitude .. MaxAltitude
    /\ sun_pos = NoSample

\* let sun_pos = SunPosition::from((sun_info.altitude, is_morning))
ClassifyStep ==
    /\ sun_pos = NoSample
    /\ sun_pos' = Classify(altitude, is_morning)
    /\ UNCHANGED <<old_sun_pos, time_of_noon, now, tz, long, eq_of_time, is_morning,
                   altitude, pubs, slept, outcome, iters, samples, n_telemetry,
                   n_phase, n_changes, on_script, noon_for, noon_days,
                   last_sun_event, all_ok, n_sunrise, sunset_day>>

NextClassify == ClassifyStep

SpecClassify == InitClassify /\ [][NextClassify]_vars

\* The noon predictor alone: one call of today_solar_noon for each date and
\* longitude.
NoonDays == {StartDay + 7 * k : k \in 0 .. MaxNoonWeeks}
NoonLongitudes == {-18000, -12000, -800, 0, 1169, 2000, 18000}

InitNoon ==
    /\ InitMain
    /\ tz \in TzOffsets
    /\ long \in NoonLongitudes
    /\ now \in {d * SecsPerDay + 6 * SecsPerHour - tz : d \in NoonDays}
    /\ is_morning = TRUE
    /\ altitude = 0
    /\ sun_pos = NoSample

\* time_of_noon = Some(today_solar_noon(&my_coords))
PredictNoon ==
    /\ time_of_noon = None
    /\ eq_of_time' = EqOfTime(Today(now))
    /\ time_of_noon' = Some(today_solar_noon(Today(now), long, EqOfTime(Today(now))))
    /\ noon_for' = Some(Today(now))
    /\ UNCHANGED <<old_sun_pos, now, tz, long, is_morning, altitude, sun_pos, pubs,
                   slept, outcome, iters, samples, n_telemetry, n_phase, n_changes,
                   on_script, noon_days, last_sun_event, all_ok, n_sunrise,
                   sunset_day>>

NextNoon == PredictNoon

SpecNoon == InitNoon /\ [][NextNoon]_vars

-----------------------------------------------------------------------------
(* The loop running for ever.                                              *)

\* The loop without its history, day after day.  The behaviour of an
\* iteration depends on the clock through the local hour, the difference
\* between time_of_noon and the clock, and the date given to
\* today_solar_noon; the equation of time of a date and of the date a day
\* later differ by less than half a minute.  So when the clock passes local
\* midnight, the clock and time_of_noon are both moved back by a day: an
\* infinite run of the program is an infinite run over finitely many states.
\* The clock advances by at most a day between two iterations.
\* Every publish call succeeds.

\* The zone's offset and the longitude: Central Europe, and Tonga (UTC+13,
\* 175 degrees west).
LiveZones == {<<SecsPerHour, 2000>>, <<13 * SecsPerHour, -17500>>}
LiveDelays == {0, SecsPerHour}

\* An instant, or None, k days earlier, for a clock that showed t.  An
\* instant more than a day before t stays where it is: the noon check asks
\* only whether the clock is past it.
DaysBack(o, k, t) ==
    IF o = None THEN None
    ELSE IF Unwrap(o) < t - SecsPerDay THEN o
    ELSE Some(Unwrap(o) - k * SecsPerDay)

InitLive ==
    /\ InitMain
    /\ \E z \in LiveZones : tz = z[1] /\ long = z[2]
    /\ now \in {StartDay * SecsPerDay + h * SecsPerHour - tz : h \in StartHours}
    /\ is_morning = TRUE
    /\ altitude = 0
    /\ sun_pos = NoSample

\* One iteration that reads the clock, d seconds after the last one.
LiveTickAfter(d) ==
    \E x \in LoopAltitudes :
        LET t == now + d
            k == Today(t) - StartDay
            p == Classify(x, Hour(t) <= 12)
        IN  /\ slept => d >= SleepSecs
            /\ now' = t - k * SecsPerDay
            /\ is_morning' = (Hour(t) <= 12)
            /\ altitude' = x
            /\ sun_pos' = p
            /\ IF SamePhase(p)
               THEN /\ pubs' = SamePubs(t, x, TRUE, TRUE)
                    /\ time_of_noon' = DaysBack(NoonAfterCheck(t), k, t)
                    /\ old_sun_pos' = OldAfterNoonCheck(t)
                    /\ slept' = TRUE
                    /\ outcome' = "same"
                    /\ UNCHANGED eq_of_time
               ELSE /\ pubs' = TransitionPubs(t, x, p, TRUE, TRUE, TRUE)
                    /\ time_of_noon' = DaysBack(NoonAfterTransition(t, p), k, t)
                    /\ eq_of_time' = EqAfterTransition(t, p)
                    /\ old_sun_pos' = OldAfterTransition(p, TRUE)
                    /\ slept' = FALSE
                    /\ outcome' = "transition"
            /\ UNCHANGED <<tz, long, iters, samples, n_telemetry, n_phase, n_changes,
                           on_script, noon_for, noon_days, last_sun_event, all_ok,
                           n_sunrise, sunset_day>>

LiveTick == \E d \in LiveDelays : LiveTickAfter(d)

\* An iteration that reads the clock after time has passed.
LiveAdvance == \E d \in LiveDelays \ {0} : LiveTickAfter(d)

\* An iteration that cannot read the clock.
LiveClockError ==
    \E d \in LiveDelays :
        LET t == now + d
            k == Today(t) - StartDay
        IN  /\ slept => d >= SleepSecs
            /\ now' = t - k * SecsPerDay
            /\ time_of_noon' = DaysBack(time_of_noon, k, t)
            /\ pubs' = <<>>
            /\ slept' = FALSE
            /\ outcome' = "skipped"
            /\ UNCHANGED <<old_sun_pos, tz, long, eq_of_time, is_morning, altitude,
                           sun_pos, iters, samples, n_telemetry, n_phase, n_changes,
                           on_script, noon_for, noon_days, last_sun_event, all_ok,
                           n_sunrise, sunset_day>>

NextLive ==
    \/ LiveTick
    \/ LiveClockError

\* Time keeps advancing and iterations keep reading the clock.
SpecLive == InitLive /\ [][NextLive]_vars /\ WF_vars(LiveAdvance)

-----------------------------------------------------------------------------
(* Vocabulary of the properties.                                           *)

IsInfoPub(e) == e.topic = "sun/info"
IsNoonPub(e) == e.topic = "sun" /\ e.payload = WireString("SolarNoon")
IsPhasePub(e) == e.topic = "sun" /\ e.payload # WireString("SolarNoon")

InfoPubsOf(ps) == SelectSeq(ps, IsInfoPub)
NoonPubsOf(ps) == SelectSeq(ps, IsNoonPub)
PhasePubsOf(ps) == SelectSeq(ps, IsPhasePub)

\* The last iteration read the clock and sampled the sun.
SampledLast == outcome \in {"same", "transition"}
\* The last iteration found the phase changed to Sunrise.
SunriseLast == outcome = "transition" /\ sun_pos = "Sunrise"

\* A step of the loop is one iteration.
IterationStep == iters' = iters + 1

-----------------------------------------------------------------------------
(* C1.  The six-sample run of spec.md section 8.                           *)

\* C1 as stated: a run from (None, None) whose samples classify as Night,
\* Night, CivilDawn, CivilDawn, Sunrise, Sunset publishes exactly 3 phase
\* events on sun and 6 telemetry messages, and the number of phase events
\* equals the number of samples that differ from the previous sample.
C1_ThreeEvents ==
    (on_script /\ samples = Len(Scenario) /\ all_ok) =>
        (n_phase = 3 /\ n_telemetry = 6 /\ n_phase = n_changes)

\* C1 amended: that run publishes exactly 4 classifier-phase events on sun
\* (Night, CivilDawn, Sunrise, Sunset: the first sample is published too,
\* as old_sun_pos starts None) and 6 telemetry messages; in general the
\* number of classifier-phase events is one for the first sample plus the
\* number of samples that differ from the previous sample, and there is one
\* telemetry message per sample.
C1_FourEvents ==
    /\ (on_script /\ samples = Len(Scenario)) => (n_phase = 4 /\ n_telemetry = 6)
    /\ samples > 0 => n_phase = n_changes + 1
    /\ samples = 0 => n_phase = 0
    /\ n_telemetry = samples

\* The six samples have been taken, the last one Sunset after a Sunrise.
C1_Witness ==
    /\ on_script /\ samples = Len(Scenario)
    /\ sun_pos = "Sunset" /\ outcome = "transition" /\ n_changes = 3 /\ all_ok

-----------------------------------------------------------------------------
(* C2.  Scheduling and firing of the solar-noon event.                     *)

-----------------------------------------------------------------------------
(* C3.  One SolarNoon event per day.                                       *)

\* C3: at most one SolarNoon event is published for a day's predicted noon
\* instant, whatever the samples, also when the phase leaves Sunrise and
\* re-enters it after the instant has passed.
C3_OncePerDay ==
    all_ok => \A i, j \in 1 .. Len(noon_days) : noon_days[i] = noon_days[j] => i = j

-----------------------------------------------------------------------------
(* C4.  Deduplication of phase events.                                     *)

\* C4: an iteration that samples the sun publishes a phase event on sun if
\* and only if the classified phase differs from old_sun_pos (None differs
\* from every phase); the event carries the classified phase's wire string
\* and old_sun_pos is that phase afterwards; otherwise old_sun_pos is
\* unchanged.  No phase event repeats the payload of the phase event before
\* it, and old_sun_pos is always the phase of the last phase event.
C4_PublishIffChanged ==
    [][(IterationStep /\ SampledLast') =>
        LET changed == old_sun_pos = None \/ Unwrap(old_sun_pos) # sun_pos'
            events == PhasePubsOf(pubs')
        IN  /\ Len(events) = (IF changed THEN 1 ELSE 0)
            /\ changed =>
                  /\ events[1].payload = WireString(sun_pos')
                  /\ old_sun_pos' = Some(sun_pos')
                  /\ last_sun_event # Some(events[1].payload)
                  /\ last_sun_event' = Some(WireString(Unwrap(old_sun_pos')))
            /\ ~changed => UNCHANGED <<old_sun_pos, last_sun_event>>
      ]_vars

\* A phase event has followed another one, and an iteration has then found
\* the phase unchanged and published none.
C4_Witness ==
    /\ n_phase >= 2
    /\ outcome = "same"
    /\ Len(PhasePubsOf(pubs)) = 0
    /\ old_sun_pos = Some(sun_pos)

-----------------------------------------------------------------------------
(* C5.  Telemetry.                                                         *)

\* C5: every iteration that samples the sun makes exactly one publish call
\* on sun/info, carrying the decimal string of the sampled altitude, whether
\* or not the phase changed and whether or not SolarNoon fired; the call
\* comes after the SolarNoon event and before the phase event, if any, so
\* before the comparison with old_sun_pos has any effect.
C5_TelemetryEveryTick ==
    /\ n_telemetry = samples
    /\ SampledLast =>
          /\ Len(InfoPubsOf(pubs)) = 1
          /\ \A i \in 1 .. Len(pubs) :
                /\ IsInfoPub(pubs[i]) => pubs[i].payload = FormatAltitude(altitude)
                /\ IsNoonPub(pubs[i]) => i = 1 /\ IsInfoPub(pubs[2])
                /\ IsPhasePub(pubs[i]) => i = Len(pubs) /\ IsInfoPub(pubs[i - 1])
    /\ ~SampledLast => pubs = <<>>

\* An iteration has fired SolarNoon and found the phase unchanged: its
\* telemetry follows the SolarNoon event.
C5_Witness ==
    /\ outcome = "same"
    /\ Len(pubs) = 2
    /\ IsNoonPub(pubs[1])
    /\ IsInfoPub(pubs[2])
    /\ altitude < 0

-----------------------------------------------------------------------------
(* C9.  Publish failures.                                                  *)

\* Some publish call of the iteration returned Err.
SomeFailed(ps) == \E i \in 1 .. Len(ps) : ~ps[i].ok
FailedPhase(ps) == \E i \in 1 .. Len(ps) : IsPhasePub(ps[i]) /\ ~ps[i].ok
FailedNoon(ps) == \E i \in 1 .. Len(ps) : IsNoonPub(ps[i]) /\ ~ps[i].ok

\* C9: an iteration with a failed publish call commits the state a
\* successful one commits: old_sun_pos becomes the new phase after a failed
\* phase publish, time_of_noon is the new prediction after a failed Sunrise
\* publish and None after a failed SolarNoon publish (when no Sunrise
\* transition re-arms it); the next iteration does not repeat the failed
\* call: it publishes no phase event while the phase is unchanged and no
\* SolarNoon event while time_of_noon is None.  The loop goes on.
C9_FailureCommits ==
    [][IterationStep =>
        /\ FailedPhase(pubs') =>
              /\ old_sun_pos' = Some(sun_pos')
              /\ sun_pos' = "Sunrise" =>
                    time_of_noon' = Some(today_solar_noon(Today(now'), long, eq_of_time'))
        /\ (FailedNoon(pubs') /\ ~SunriseLast') => time_of_noon' = None
        /\ (FailedPhase(pubs) /\ SampledLast' /\ sun_pos' = sun_pos) =>
              Len(PhasePubsOf(pubs')) = 0
        /\ (FailedNoon(pubs) /\ time_of_noon = None) => Len(NoonPubsOf(pubs')) = 0
        /\ (SomeFailed(pubs') /\ iters' < MaxIters) => (ENABLED Next)'
      ]_vars

\* All three publish calls of one iteration have failed, and the iteration
\* has committed the new phase and cleared the pending noon.
C9_Witness ==
    /\ FailedNoon(pubs) /\ FailedPhase(pubs)
    /\ \A i \in 1 .. Len(pubs) : ~pubs[i].ok
    /\ old_sun_pos = Some(sun_pos)
    /\ sun_pos = "Sunset"
    /\ time_of_noon = None

-----------------------------------------------------------------------------
(* C10.  An iteration that cannot read the clock.                          *)

\* C10: when the clock cannot be read the iteration publishes nothing,
\* leaves old_sun_pos and time_of_noon alone and sleeps the normal 60
\* seconds before the next iteration.
C10_SkippedTickSleeps == outcome = "skipped" => (pubs = <<>> /\ slept)

-----------------------------------------------------------------------------
(* C6, C7, C8.  The phase classifier.                                      *)

\* The classifier has run on (altitude, is_morning).
Classified == sun_pos # NoSample

\* The table of spec.md section 4.1 on a whole number of degrees d.
BucketTable(d, morning) ==
    IF d >= -18 /\ d <= -13 THEN (IF morning THEN "AstronomicalDawn" ELSE "AstronomicalDusk")
    ELSE IF d >= -12 /\ d <= -7 THEN (IF morning THEN "NauticalDawn" ELSE "NauticalDusk")
    ELSE IF d >= -6 /\ d <= -1 THEN (IF morning THEN "CivilDawn" ELSE "CivilDusk")
    ELSE IF d >= 0 /\ d <= 90 THEN (IF morning THEN "Sunrise" ELSE "Sunset")
    ELSE "Night"

\* The whole degree below x tenths of a degree (floor).
DegreeBelow(x) == x \div 10

\* The evening counterpart of a morning phase.
Counterpart(p) ==
    CASE p = "AstronomicalDawn" -> "AstronomicalDusk"
      [] p = "NauticalDawn" -> "NauticalDusk"
      [] p = "CivilDawn" -> "CivilDusk"
      [] p = "Sunrise" -> "Sunset"
      [] p = "Night" -> "Night"

\* C6 as stated: every altitude strictly below -18 degrees or strictly above
\* 90 degrees classifies as Night, morning and evening.
C6_NightBeyondBands ==
    (Classified /\ (altitude < -180 \/ altitude > 900)) => sun_pos = "Night"

\* C6 amended: every altitude of -19 degrees or less, or of 91 degrees or
\* more (one whose whole-degree part is below -18 or above 90), also far
\* beyond the range of i8, classifies as Night, morning and evening.
C6_NightBeyondWholeDegrees ==
    (Classified /\ (altitude <= -190 \/ altitude >= 910)) =>
        /\ sun_pos = "Night"
        /\ Classify(altitude, TRUE) = "Night"
        /\ Classify(altitude, FALSE) = "Night"

\* An altitude whose whole degrees exceed i8 has been classified as Night.
C6_Witness == sun_pos = "Night" /\ altitude > 10 * (I8_MAX - I8_MIN)

\* C7: the classifier is the table applied to the altitude truncated toward
\* zero; -0.9 degrees is Sunrise or Sunset; altitudes strictly between the
\* same two consecutive whole degrees classify alike.
C7_TableOnTruncation ==
    Classified =>
        /\ sun_pos = BucketTable(TruncDiv(altitude, 10), is_morning)
        /\ altitude = -9 => sun_pos = (IF is_morning THEN "Sunrise" ELSE "Sunset")
        /\ \A y \in (altitude - 9) .. (altitude + 9) :
              (y % 10 # 0 /\ altitude % 10 # 0 /\ DegreeBelow(y) = DegreeBelow(altitude))
                  => Classify(y, is_morning) = sun_pos

\* -0.9 degrees has been classified in the evening, as Sunset.
C7_Witness == altitude = -9 /\ ~is_morning /\ sun_pos = "Sunset"

\* C8: the morning and the evening result for one altitude are counterparts
\* of the same band; they are equal exactly when both are Night; a morning
\* result is never a Dusk or Sunset variant, an evening result never a Dawn or
\* Sunrise variant.
C8_MorningEveningFamilies ==
    Classified =>
        LET m == Classify(altitude, TRUE)
            e == Classify(altitude, FALSE)
        IN  /\ sun_pos = (IF is_morning THEN m ELSE e)
            /\ m \in {"Night", "AstronomicalDawn", "NauticalDawn", "CivilDawn", "Sunrise"}
            /\ e = Counterpart(m)
            /\ (m = e) <=> (m = "Night" /\ e = "Night")

\* A nautical-band altitude has been classified in the evening.
C8_Witness == sun_pos = "NauticalDusk" /\ ~is_morning /\ altitude = -75

-----------------------------------------------------------------------------
(* C11, C17, C18.  The noon predictor.                                     *)

\* today_solar_noon has returned the instant for the day noon_for.
Predicted == time_of_noon # None /\ noon_for # None

Abs(x) == IF x < 0 THEN -x ELSE x

\* The predicted instant as seconds after the date's midnight, shifted to
\* local mean time: 4 minutes (240 s) for each degree of longitude.
LocalMeanNoon ==
    Unwrap(time_of_noon) - Unwrap(noon_for) * SecsPerDay + TruncDiv(24 * long, 10)

\* C11: for every date and every longitude in [-180, 180] the predicted noon
\* instant, shifted to local mean time, lies within [11:00, 13:00] of that
\* date: the computed equation of time never exceeds 60 minutes in magnitude,
\* and it stays within about 16 minutes (here: within 17) across the year.
C11_NoonWindow ==
    Predicted =>
        /\ LocalMeanNoon >= 11 * SecsPerHour
        /\ LocalMeanNoon <= 13 * SecsPerHour
        /\ Abs(eq_of_time) <= 6000
        /\ Abs(eq_of_time) <= 1700

\* Division by b with rounding to the nearest whole number, a half rounding
\* up (away from zero for a negative a).
RoundDiv(a, b) == IF a >= 0 THEN (2 * a + b) \div (2 * b) ELSE -((2 * (-a) + b) \div (2 * b))

\* C17: the predicted instant is the date's midnight plus the offset times
\* 86400 rounded to the nearest whole second (a fraction of 0.5 or more
\* rounds up), not truncated toward zero.
C17_RoundedToNearest ==
    Predicted =>
        Unwrap(time_of_noon) =
            Unwrap(noon_for) * SecsPerDay + RoundDiv(SolarNoonAfter(long, eq_of_time), 10)

\* The five-term expression with sin 4L as the factor of 0.5 y^2.
NoaaEqOfTime(today) == EqOfTimeWith(today, Sin(4 * sun_long(today)))

\* C18: the equation of time is 4 * degrees(y sin 2L - 2e sin M
\* + 4ey sin M cos 2L - 0.5 y^2 sin 4L - 1.25 e^2 sin 2M), every term the
\* harmonic of its place (to a tenth of a minute).
C18_FiveHarmonics ==
    Predicted => Abs(eq_of_time - NoaaEqOfTime(Unwrap(noon_for))) <= 10

-----------------------------------------------------------------------------
(* C12.  The wire strings.                                                 *)

\* The phases whose wire string is w.
PhasesOf(w) == {q \in SunPosition : WireString(q) = w}

\* C12: every one of the ten variants has a wire string, no two variants
\* have the same one, and none is empty; so every payload published on sun
\* names exactly one variant, the phase event's the classified phase.
C12_WireStringsInjective ==
    /\ Cardinality(SunPosition) = 10
    /\ \A a, b \in SunPosition : WireString(a) = WireString(b) => a = b
    /\ \A a \in SunPosition : WireString(a) # ""
    /\ \A i \in 1 .. Len(pubs) :
          pubs[i].topic = "sun" => Cardinality(PhasesOf(pubs[i].payload)) = 1
    /\ outcome = "transition" => PhasesOf(pubs[Len(pubs)].payload) = {sun_pos}

\* A dusk phase has been published in the iteration that fired SolarNoon.
C12_Witness ==
    /\ Len(pubs) = 3
    /\ pubs[1].payload = "solarNoon"
    /\ pubs[3].payload = "civilDusk"
    /\ sun_pos = "CivilDusk"

-----------------------------------------------------------------------------
(* C13.  The pending noon event is published.                              *)

\* The last iteration published SolarNoon.
NoonFired == \E i \in 1 .. Len(pubs) : IsNoonPub(pubs[i])

\* C13: whenever time_of_noon is set, a SolarNoon event is eventually
\* published, provided time keeps advancing and iterations keep running.
C13_NoonEventuallyPublished == (time_of_noon # None) ~> NoonFired

-----------------------------------------------------------------------------
(* C14.  What changes time_of_noon.                                        *)

\* C14: an iteration that detects a transition into Sunrise sets time_of_noon
\* to the new prediction, whatever it held; otherwise an iteration whose noon
\* check fires sets it to None; every other iteration (no transition, a
\* transition into another phase such as Sunset, no clock reading) leaves it
\* unchanged.
C14_NoonFrame ==
    [][IterationStep =>
        /\ SunriseLast' =>
              time_of_noon' = Some(today_solar_noon(Today(now'), long, EqOfTime(Today(now'))))
        /\ (~SunriseLast' /\ SampledLast' /\ NoonDue(now')) => time_of_noon' = None
        /\ (~SunriseLast' /\ ~(SampledLast' /\ NoonDue(now'))) => UNCHANGED time_of_noon
      ]_vars

\* A second transition into Sunrise has overwritten a pending instant that
\* had not fired.
C14_Witness ==
    /\ SunriseLast
    /\ n_sunrise = 2
    /\ noon_days = <<>>
    /\ time_of_noon # None

-----------------------------------------------------------------------------
(* C15.  Cadence of the loop.                                              *)

\* C15: an iteration that publishes no transition is followed by a sleep of
\* 60 seconds, an iteration that publishes one is followed at once by the
\* next; so no iteration follows another one without a sleep between them
\* unless the first of the two published a transition.
C15_SleepUnlessTransition ==
    [][IterationStep =>
        /\ outcome' = "same" => slept'
        /\ outcome' = "transition" => ~slept'
        /\ slept => now' >= now + SleepSecs
        /\ (outcome # "start" /\ ~slept) => outcome = "transition"
      ]_vars

-----------------------------------------------------------------------------
(* C16.  SolarNoon comes from the noon check only.                         *)

\* Whole degrees at the edges of the classifier's bands and of i8.
BandEdges == {I8_MIN, -19, -18, -13, -12, -7, -6, -1, 0, 90, 91, I8_MAX}

NoonPublished(ps) == \E i \in 1 .. Len(ps) : IsNoonPub(ps[i])

\* C16: the classifier never returns SolarNoon and old_sun_pos is never
\* SolarNoon; a SolarNoon event is published only by a noon check that
\* fires, as the first publish call of its iteration, and that iteration
\* leaves old_sun_pos unchanged when it finds no transition (and holding the
\* classified phase when it finds one).
C16_NoonOnlyFromCheck ==
    /\ [](/\ sun_pos # "SolarNoon"
          /\ \A d \in BandEdges, m \in BOOLEAN : Classify(10 * d, m) # "SolarNoon"
          /\ old_sun_pos # Some("SolarNoon")
          /\ last_sun_event # Some(WireString("SolarNoon")))
    /\ [][(IterationStep /\ NoonPublished(pubs')) =>
            /\ SampledLast' /\ NoonDue(now')
            /\ IsNoonPub(pubs'[1])
            /\ Len(NoonPubsOf(pubs')) = 1
            /\ outcome' = "same" => UNCHANGED old_sun_pos
            /\ outcome' = "transition" => old_sun_pos' = Some(sun_pos')
         ]_vars

\* SolarNoon has fired in an iteration that found the phase, Sunrise,
\* unchanged: old_sun_pos is still Sunrise and no phase event was published.
C16_Witness ==
    /\ outcome = "same"
    /\ NoonPublished(pubs)
    /\ old_sun_pos = Some("Sunrise")
    /\ n_phase = 1

-----------------------------------------------------------------------------
(* C19.  Order of sunrise, solarNoon and sunset within a day.              *)

\* The instant of hour h, local wall-clock time, of the local day d.
LocalInstant(d, h) == d * SecsPerDay + h * SecsPerHour - tz

\* C19 as stated: when the SolarNoon event of a day is published, the day's
\* Sunrise event has been published and the day's Sunset event has not,
\* whatever the predicted instant.
C19_NoonBeforeSunset ==
    [][(IterationStep /\ NoonPublished(pubs')) =>
        /\ noon_for # None /\ n_sunrise >= 1
        /\ sunset_day # noon_for
      ]_vars

\* C19 amended: when the SolarNoon event of a day is published, the day's
\* Sunrise event has been published, and the call precedes the phase event of
\* its own iteration; the day's Sunset event has not been published if the
\* predicted instant is earlier than 13:00 local wall-clock time of that day,
\* the hour at which is_morning turns false.
C19_NoonBeforeSunsetIfBefore13 ==
    [][(IterationStep /\ NoonPublished(pubs')) =>
        /\ noon_for # None /\ n_sunrise >= 1
        /\ IsNoonPub(pubs'[1])
        /\ \A i \in 2 .. Len(pubs') : ~IsNoonPub(pubs'[i])
        /\ Unwrap(time_of_noon) < LocalInstant(Unwrap(noon_for), 13) =>
              sunset_day # noon_for
      ]_vars

\* SolarNoon has been published in the iteration that went on to publish the
\* day's Sunset, the instant predicted for before 13:00.
C19_Witness ==
    /\ sun_pos = "Sunset" /\ outcome = "transition"
    /\ IsNoonPub(pubs[1])
    /\ noon_days = <<Today(now)>>
    /\ sunset_day = Some(Today(now))
    /\ n_sunrise >= 1
    /\ today_solar_noon(Today(now), long, eq_of_time) < LocalInstant(Today(now), 13)

-----------------------------------------------------------------------------
(* C20.  SolarNoon events answer Sunrise events.                           *)

\* C20: at every point of a run the number of SolarNoon events published is
\* at most the number of Sunrise events published, and smaller while an
\* instant is pending; none is published, and none is pending, before the
\* first Sunrise event.
C20_NoonAnswersSunrise ==
    /\ Len(noon_days) <= n_sunrise
    /\ time_of_noon # None => Len(noon_days) < n_sunrise
    /\ n_sunrise = 0 => (noon_days = <<>> /\ time_of_noon = None)

\* Two Sunrise events have each been answered by a SolarNoon event.
C20_Witness ==
    /\ n_sunrise = 2
    /\ Len(noon_days) = 2
    /\ time_of_noon = None

====
